---------------------------- MODULE Spec2Model ----------------------------
(***************************************************************************)
(* PANTHER Live voice overlay (src/web/static/js/panther-live.js) as a     *)
(* state machine.  The module-level `let` variables of the script are the  *)
(* state; every event handler, timer callback and promise continuation of  *)
(* the script is one action.  JavaScript runs one task at a time: an       *)
(* action is one task.  Where a handler's synchronous tail is of interest  *)
(* on its own (the drain check after routeTranscript, the finally block    *)
(* after the confirmation gate, processPlaybackQueue) it is a step of its  *)
(* own that runs before any other task (pc # "idle" disables all tasks).   *)
(***************************************************************************)
EXTENDS Naturals, Sequences, FiniteSets

VARIABLES
  statusTextDefined,   \* does the identifier setStatusText resolve (see SetStatusTextThrows)
  isOpen, micOn, assistantState, nOpen,
  audioContext, micStream, micProcessor, isSpeaking, acq, leaked,
  sock, geminiWs, wsReady, inbox, transcriptBuffer,
  playbackQueue, isPlaying, playbackContext, resumeWaiters, sources,
  nextFrag, startLog,
  warningTimer, closeTimer, drainWaiters,
  agentSessionId, isProcessingAgent, pendingConfirmation,
  disp,
  asked,               \* the request whose confirmation_required no transcript has followed yet
  pc, out                \* out: what the last step sent, logged or displayed

overlayVars == <<isOpen, nOpen>>
micVars     == <<audioContext, micStream, micProcessor, isSpeaking, acq, leaked>>
wsVars      == <<sock, geminiWs, wsReady>>
pbVars      == <<playbackQueue, isPlaying, playbackContext, resumeWaiters, sources,
                 startLog>>
timerVars   == <<warningTimer, closeTimer>>
agentVars   == <<agentSessionId, isProcessingAgent, pendingConfirmation, asked, disp>>

\* Every variable but out.
progVars == <<statusTextDefined, isOpen, micOn, assistantState, nOpen,
              audioContext, micStream, micProcessor, isSpeaking, acq, leaked,
              sock, geminiWs, wsReady, inbox, transcriptBuffer,
              playbackQueue, isPlaying, playbackContext, resumeWaiters, sources,
              nextFrag, startLog,
              warningTimer, closeTimer, drainWaiters,
              agentSessionId, isProcessingAgent, pendingConfirmation, asked,
              disp, pc>>

vars == <<statusTextDefined, isOpen, micOn, assistantState, nOpen,
          audioContext, micStream, micProcessor, isSpeaking, acq, leaked,
          sock, geminiWs, wsReady, inbox, transcriptBuffer,
          playbackQueue, isPlaying, playbackContext, resumeWaiters, sources,
          nextFrag, startLog,
          warningTimer, closeTimer, drainWaiters,
          agentSessionId, isProcessingAgent, pendingConfirmation, asked,
          disp, pc, out>>

(***************************************************************************)
(* Bounds of the model.                                                    *)
(***************************************************************************)
MaxOpen     == 2   \* overlay-open periods
MaxDispatch == 2   \* backend requests issued
MaxEvents   == 3   \* events read from one backend response
MaxSock     == 2   \* WebSocket objects created
MaxInbox    == 2   \* onmessage handlers suspended at `await event.data.text()`
MaxFrag     == 3   \* audio fragments received
MaxAcq      == 1   \* getUserMedia calls pending
MaxWait     == 1   \* waitForAudioDrain pollers pending
MaxBuf      == 7   \* characters in transcriptBuffer

(***************************************************************************)
(* Strings are sequences of one-character strings, so that trim, split,    *)
(* toLowerCase and includes are computed and not assumed.                  *)
(***************************************************************************)
Yes   == <<"y", "e", "s">>
No    == <<"c", "a", "n", "c", "e", "l">>
Short == <<"a", " ", "b", " ", "c">>
Cmd   == <<"a", " ", "b", " ", "c", " ", "d">>
TextParts == {Yes, No, Short, Cmd}

IsSpace(c) == c = " "

RECURSIVE TrimLeft(_)
TrimLeft(s) == IF s # <<>> /\ IsSpace(Head(s)) THEN TrimLeft(Tail(s)) ELSE s

RECURSIVE TrimRight(_)
TrimRight(s) ==
  IF s # <<>> /\ IsSpace(s[Len(s)]) THEN TrimRight(SubSeq(s, 1, Len(s) - 1)) ELSE s

Trim(s) == TrimRight(TrimLeft(s))

Lower(c) == CASE c = "Y" -> "y" [] c = "E" -> "e" [] c = "S" -> "s"
              [] c = "O" -> "o" [] c = "K" -> "k" [] c = "N" -> "n"
              [] OTHER -> c

ToLowerCase(s) == [i \in 1..Len(s) |-> Lower(s[i])]

Includes(s, w) ==
  \E i \in 1..(Len(s) + 1) :
    i + Len(w) - 1 <= Len(s) /\ SubSeq(s, i, i + Len(w) - 1) = w

\* transcript.trim().split(/\s+/).length
SplitLength(s) ==
  LET t == Trim(s)
  IN IF t = <<>> THEN 1
     ELSE Cardinality({i \in 1..Len(t) :
                         ~IsSpace(t[i]) /\ (i = 1 \/ IsSpace(t[i - 1]))})

yesWords == { <<"y", "e", "s">>, <<"y", "e", "a", "h">>, <<"y", "e", "p">>,
              <<"c", "o", "n", "f", "i", "r", "m">>,
              <<"p", "r", "o", "c", "e", "e", "d">>,
              <<"o", "k">>, <<"o", "k", "a", "y">>,
              <<"d", "o", " ", "i", "t">>,
              <<"g", "o", " ", "a", "h", "e", "a", "d">> }

\* yesWords.some(w => response.includes(w)), response = transcript.toLowerCase().trim()
IsAffirmative(transcript) ==
  LET response == Trim(ToLowerCase(transcript))
  IN \E w \in yesWords : Includes(response, w)

\* wordCount <= 3 : the utterance stays in Gemini Live
IsShortUtterance(transcript) == SplitLength(transcript) <= 3

(***************************************************************************)
(* Values.                                                                 *)
(***************************************************************************)
States == {"idle", "listening", "processing", "speaking", "agent-processing",
           "awaiting-confirmation", "timeout-warning"}

StateFor(mic) == IF mic THEN "listening" ELSE "idle"

NoPending == [set |-> FALSE, text |-> <<>>, by |-> 0]

NoDispatch == [pc |-> "none", text |-> <<>>, confirmed |-> FALSE, sid |-> 0,
               per |-> 0, n |-> 0, shape |-> "p", speaks |-> 0, syncs |-> 0]

SessionIds == {1, 2}

EventTypes == {"session", "progress", "chunk", "confirmation_required", "result",
               "summary", "summary_empty", "error", "done"}

Idle == [k |-> "idle", d |-> 0]

\* readyState === WebSocket.OPEN
SockOpen(s) == s # 0 /\ sock[s] \in {"open", "setup", "ready"}

\* speakSummary / streamAudioChunk send only on an open, acknowledged channel
ChannelReady == SockOpen(geminiWs) /\ wsReady

\* setStatusText is called at lines 688, 752, 803 and 824 and defined in no
\* source file; in the strict-mode script an unresolvable call throws
\* ReferenceError.  Whether the page defines it globally is not in the
\* sources: both outcomes are kept.
SetStatusTextThrows == ~statusTextDefined

InFlight == {d \in 1..MaxDispatch : disp[d].pc \in {"fetch", "stream"}}

nDisp == Cardinality({d \in 1..MaxDispatch : disp[d].pc # "none"})

nSock == Cardinality({s \in 1..MaxSock : sock[s] # "none"})

Drained == playbackQueue = <<>> /\ ~isPlaying

Init ==
  /\ statusTextDefined \in BOOLEAN
  /\ isOpen = FALSE /\ micOn = FALSE /\ assistantState = "idle" /\ nOpen = 0
  /\ audioContext = FALSE /\ micStream = FALSE /\ micProcessor = FALSE
  /\ isSpeaking = FALSE /\ acq = 0 /\ leaked = FALSE
  /\ sock = [s \in 1..MaxSock |-> "none"] /\ geminiWs = 0 /\ wsReady = FALSE
  /\ inbox = <<>> /\ transcriptBuffer = <<>>
  /\ playbackQueue = <<>> /\ isPlaying = FALSE /\ playbackContext = "none"
  /\ resumeWaiters = <<>> /\ sources = {}
  /\ nextFrag = 1 /\ startLog = <<>>
  /\ warningTimer = FALSE /\ closeTimer = FALSE /\ drainWaiters = 0
  /\ agentSessionId = 0 /\ isProcessingAgent = FALSE
  /\ pendingConfirmation = NoPending /\ asked = 0
  /\ disp = [d \in 1..MaxDispatch |-> NoDispatch]
  /\ pc = Idle /\ out = {}


(***************************************************************************)
(* Helpers shared by several handlers.                                     *)
(***************************************************************************)
Remove(q, i) == SubSeq(q, 1, i - 1) \o SubSeq(q, i + 1, Len(q))

Msg(kind, text, frag) == [k |-> kind, text |-> text, frag |-> frag]

RECURSIVE InboxChars(_)
InboxChars(q) == IF q = <<>> THEN 0 ELSE Len(Head(q).text) + InboxChars(Tail(q))

InboxTurns == Cardinality({i \in 1..Len(inbox) : inbox[i].k = "turn"})

\* AudioContext.close(): the context's sources fall silent and its pending
\* resume() promises can only reject; their callbacks stay registered.
Stale(x) == [x EXCEPT !.live = FALSE]

(***************************************************************************)
(* 8. Open / Close / Toggle                                                *)
(***************************************************************************)
OpenOverlayKeepsPending ==
  /\ pc = Idle /\ ~isOpen /\ nOpen < MaxOpen
  /\ isOpen' = TRUE /\ nOpen' = nOpen + 1
  /\ assistantState' = "idle"
  /\ agentSessionId' = 0
  /\ transcriptBuffer' = <<>>
  /\ isProcessingAgent' = FALSE
  /\ out' = {}
  /\ UNCHANGED <<statusTextDefined, micOn, micVars, wsVars, inbox, pbVars, nextFrag,
                 timerVars, drainWaiters, pendingConfirmation, asked, disp, pc>>

OpenOverlay ==
  /\ pc = Idle /\ ~isOpen /\ nOpen < MaxOpen
  /\ isOpen' = TRUE /\ nOpen' = nOpen + 1
  /\ assistantState' = "idle"
  /\ agentSessionId' = 0
  /\ transcriptBuffer' = <<>>
  /\ isProcessingAgent' = FALSE
  /\ pendingConfirmation' = NoPending
  /\ out' = {}
  /\ UNCHANGED <<statusTextDefined, micOn, micVars, wsVars, inbox, pbVars, nextFrag,
                 timerVars, drainWaiters, asked, disp, pc>>

\* clearPlaybackQueue(): the queue and the flag only; the playing source is
\* neither stopped nor is its onended handler removed.
clearPlaybackQueue ==
  /\ playbackQueue' = <<>>
  /\ isPlaying' = FALSE

\* stopMic(): releases what micProcessor / micStream / audioContext refer to.
stopMic ==
  /\ micProcessor' = FALSE /\ micStream' = FALSE /\ audioContext' = FALSE
  /\ isSpeaking' = FALSE

\* clearIdleTimer()
clearIdleTimer == warningTimer' = FALSE /\ closeTimer' = FALSE

\* resetIdleTimer with a seeded fault: the warning timer is scheduled whether
\* or not the mic is on.
resetIdleTimerAlways(mic) == warningTimer' = TRUE /\ closeTimer' = FALSE

\* resetIdleTimer() with the value micOn has when it runs
resetIdleTimer(mic) == warningTimer' = mic /\ closeTimer' = FALSE

\* closeOverlay with a seeded fault: the close request is sent whether or not
\* a session id is recorded.
closeOverlayAlwaysNotifies ==
  IF ~isOpen
  THEN UNCHANGED <<isOpen, micOn, micVars, wsVars, pbVars, warningTimer,
                   agentSessionId>> /\ closeTimer' = FALSE /\ out' = {}
  ELSE
    /\ isOpen' = FALSE
    /\ micOn' = FALSE
    /\ stopMic
    /\ clearIdleTimer
    /\ clearPlaybackQueue
    /\ out' = {"closeSession"}
    /\ agentSessionId' = 0
    /\ IF geminiWs # 0
       THEN /\ sock' = [sock EXCEPT ![geminiWs] =
                          IF @ \in {"connecting", "open", "setup", "ready"}
                          THEN "closing" ELSE @]
            /\ geminiWs' = 0
            /\ wsReady' = FALSE
       ELSE UNCHANGED wsVars
    /\ IF playbackContext # "none"
       THEN /\ playbackContext' = "none"
            /\ sources' = {Stale(x) : x \in sources}
            /\ resumeWaiters' = [i \in 1..Len(resumeWaiters) |-> Stale(resumeWaiters[i])]
       ELSE UNCHANGED <<playbackContext, sources, resumeWaiters>>
    /\ startLog' = <<>>
    /\ UNCHANGED <<acq, leaked>>

closeOverlay ==
  IF ~isOpen
  THEN UNCHANGED <<isOpen, micOn, micVars, wsVars, pbVars, warningTimer,
                   agentSessionId>> /\ closeTimer' = FALSE /\ out' = {}
  ELSE
    /\ isOpen' = FALSE
    /\ micOn' = FALSE
    /\ stopMic
    /\ clearIdleTimer
    /\ clearPlaybackQueue
    /\ out' = IF agentSessionId # 0 THEN {"closeSession"} ELSE {}
    /\ agentSessionId' = 0
    /\ IF geminiWs # 0
       THEN /\ sock' = [sock EXCEPT ![geminiWs] =
                          IF @ \in {"connecting", "open", "setup", "ready"}
                          THEN "closing" ELSE @]
            /\ geminiWs' = 0
            /\ wsReady' = FALSE
       ELSE UNCHANGED wsVars
    /\ IF playbackContext # "none"
       THEN /\ playbackContext' = "none"
            /\ sources' = {Stale(x) : x \in sources}
            /\ resumeWaiters' = [i \in 1..Len(resumeWaiters) |-> Stale(resumeWaiters[i])]
       ELSE UNCHANGED <<playbackContext, sources, resumeWaiters>>
    /\ startLog' = <<>>
    /\ UNCHANGED <<acq, leaked>>

CloseOverlay ==
  /\ pc = Idle /\ isOpen
  /\ closeOverlay
  /\ UNCHANGED <<statusTextDefined, nOpen, assistantState, inbox, transcriptBuffer,
                 nextFrag, drainWaiters, isProcessingAgent, pendingConfirmation, asked,
                 disp, pc>>

\* The close request of closeOverlay settles.  A failure runs the empty
\* handler of `.catch(() => {})`, a success runs nothing; as neither reads
\* or writes the state, the settlement is taken as the task after the close.
CloseNotifySettles ==
  /\ pc = Idle /\ "closeSession" \in out
  /\ out' = {"closeSettled"}
  /\ UNCHANGED progVars

\* toggleMic(), mic-on branch up to `await startMic()`; startMic up to
\* `await getUserMedia(...)`.
ToggleMicOn ==
  /\ pc = Idle /\ isOpen /\ ~micOn /\ acq < MaxAcq
  /\ micOn' = TRUE
  /\ assistantState' = "listening"
  /\ audioContext' = TRUE
  /\ acq' = acq + 1
  /\ out' = {}
  /\ UNCHANGED <<statusTextDefined, overlayVars, micStream, micProcessor, isSpeaking,
                 leaked, wsVars, inbox, transcriptBuffer, pbVars, nextFrag, timerVars,
                 drainWaiters, agentVars, pc>>

\* toggleMic with a seeded fault: mic-off also drops the in-flight flag.
ToggleMicOffDropsFlag ==
  /\ pc = Idle /\ isOpen /\ micOn
  /\ micOn' = FALSE
  /\ assistantState' = "idle"
  /\ stopMic
  /\ clearIdleTimer
  /\ isProcessingAgent' = FALSE
  /\ out' = {}
  /\ UNCHANGED <<statusTextDefined, overlayVars, acq, leaked, wsVars, inbox,
                 transcriptBuffer, pbVars, nextFrag, drainWaiters, agentSessionId,
                 pendingConfirmation, asked, disp, pc>>

ToggleMicOff ==
  /\ pc = Idle /\ isOpen /\ micOn
  /\ micOn' = FALSE
  /\ assistantState' = "idle"
  /\ stopMic
  /\ clearIdleTimer
  /\ out' = {}
  /\ UNCHANGED <<statusTextDefined, overlayVars, acq, leaked, wsVars, inbox,
                 transcriptBuffer, pbVars, nextFrag, drainWaiters, agentVars, pc>>

\* connectGeminiWS(): a new WebSocket replaces whatever geminiWs referred to.
connectGeminiWS ==
  IF SockOpen(geminiWs)
  THEN UNCHANGED wsVars
  ELSE /\ sock' = [sock EXCEPT ![nSock + 1] = "connecting"]
       /\ geminiWs' = nSock + 1
       /\ wsReady' = FALSE

\* getUserMedia settles: the rest of startMic, then the rest of toggleMic.
AcqSettle(granted) ==
  /\ pc = Idle /\ acq > 0
  /\ ~SockOpen(geminiWs) => nSock < MaxSock
  /\ LET pipeline == granted /\ audioContext
         micOn1   == IF pipeline THEN micOn ELSE FALSE
     IN /\ acq' = acq - 1
        /\ micStream' = (granted \/ micStream)
        /\ leaked' = (leaked \/ (granted /\ micStream))
        /\ micProcessor' = (pipeline \/ micProcessor)
        /\ micOn' = micOn1
        /\ connectGeminiWS
        /\ resetIdleTimer(micOn1)
  /\ out' = {}
  /\ UNCHANGED <<statusTextDefined, overlayVars, assistantState, audioContext,
                 isSpeaking, inbox, transcriptBuffer, pbVars, nextFrag, drainWaiters,
                 agentVars, pc>>

(***************************************************************************)
(* 3. Gemini Live WebSocket.  sock[s] is the life of the s-th WebSocket    *)
(* object: connecting, open (no setup reached the server on it), setup     *)
(* (the server holds its setup message), ready (the server has answered    *)
(* setupComplete), closing (closed or failed, close event pending),        *)
(* closed.  The handlers of every object read and write the same state.    *)
(***************************************************************************)
\* onopen of connection s: geminiWs.send(setup) goes to whatever geminiWs
\* refers to now.
SocketOpen(s) ==
  /\ pc = Idle /\ sock[s] = "connecting"
  /\ sock' = [sock EXCEPT ![s] = IF geminiWs = s THEN "setup" ELSE "open"]
  /\ out' = IF geminiWs = s \/ SockOpen(geminiWs) THEN {"setup"} ELSE {}
  /\ UNCHANGED <<statusTextDefined, overlayVars, micOn, assistantState, micVars,
                 geminiWs, wsReady, inbox, transcriptBuffer, pbVars, nextFrag,
                 timerVars, drainWaiters, agentVars, pc>>

\* onerror of connection s
SocketError(s) ==
  /\ pc = Idle /\ sock[s] \in {"connecting", "open", "setup", "ready"}
  /\ sock' = [sock EXCEPT ![s] = "closing"]
  /\ wsReady' = FALSE
  /\ out' = {}
  /\ UNCHANGED <<statusTextDefined, overlayVars, micOn, assistantState, micVars,
                 geminiWs, inbox, transcriptBuffer, pbVars, nextFrag, timerVars,
                 drainWaiters, agentVars, pc>>

\* onclose of connection s
SocketClose(s) ==
  /\ pc = Idle /\ sock[s] \in {"open", "setup", "ready", "closing"}
  /\ sock' = [sock EXCEPT ![s] = "closed"]
  /\ wsReady' = FALSE
  /\ out' = {}
  /\ UNCHANGED <<statusTextDefined, overlayVars, micOn, assistantState, micVars,
                 geminiWs, inbox, transcriptBuffer, pbVars, nextFrag, timerVars,
                 drainWaiters, agentVars, pc>>

\* A message event of connection s: onmessage runs up to
\* `await event.data.text()`; the rest of the handler is HandleMessage.
Receive(s, m) ==
  /\ pc = Idle /\ Len(inbox) < MaxInbox
  /\ inbox' = Append(inbox, m)
  /\ out' = {}
  /\ UNCHANGED <<statusTextDefined, overlayVars, micOn, assistantState, micVars,
                 geminiWs, wsReady, transcriptBuffer, pbVars, timerVars,
                 drainWaiters, agentVars, pc>>

\* The server answers the setup message of connection s; frag names the
\* connection whose message event this is.
ServerSetupComplete(s) ==
  /\ sock[s] = "setup"
  /\ Receive(s, Msg("setupComplete", <<>>, s))
  /\ sock' = [sock EXCEPT ![s] = "ready"]
  /\ UNCHANGED nextFrag

ServerText(s, p) ==
  /\ sock[s] = "ready"
  /\ Len(transcriptBuffer) + InboxChars(inbox) + Len(p) <= MaxBuf
  /\ Receive(s, Msg("text", p, 0))
  /\ UNCHANGED <<sock, nextFrag>>

ServerAudio(s) ==
  /\ sock[s] = "ready" /\ nextFrag <= MaxFrag
  /\ Receive(s, Msg("audio", <<>>, nextFrag))
  /\ nextFrag' = nextFrag + 1
  /\ UNCHANGED sock

ServerTurnComplete(s) ==
  /\ sock[s] = "ready" /\ drainWaiters + InboxTurns < MaxWait
  /\ Receive(s, Msg("turn", <<>>, 0))
  /\ UNCHANGED <<sock, nextFrag>>

\* The setupComplete of connection s has been received and handled by onmessage.
OwnSetupComplete(s) ==
  /\ s # 0 /\ sock[s] = "ready"
  /\ \A i \in 1..Len(inbox) :
       ~(inbox[i].k = "setupComplete" /\ inbox[i].frag = s)

(***************************************************************************)
(* 9. Agent integration                                                    *)
(***************************************************************************)
\* RouteKind with a seeded fault: the word count is tested before PendingConfirmation.
RouteKindShortFirst(transcript) ==
  IF IsShortUtterance(transcript) THEN "short"
  ELSE IF pendingConfirmation.set
  THEN IF IsAffirmative(transcript) THEN "confirm" ELSE "cancel"
  ELSE IF isProcessingAgent THEN "busy"
  ELSE "dispatch"

\* routeTranscript / handleConfirmationResponse: which branch a transcript takes
RouteKind(transcript) ==
  IF pendingConfirmation.set
  THEN IF IsAffirmative(transcript) THEN "confirm" ELSE "cancel"
  ELSE IF IsShortUtterance(transcript) THEN "short"
  ELSE IF isProcessingAgent THEN "busy"
  ELSE "dispatch"

\* Request with a seeded fault: the body never carries confirmed=true.
RequestUnconfirmed(text, confirmed) ==
  [NoDispatch EXCEPT !.pc = "fetch", !.text = text, !.confirmed = FALSE,
                     !.sid = agentSessionId, !.per = nOpen]

\* The request body of callVoiceCommandAPI(text, confirmed)
Request(text, confirmed) ==
  [NoDispatch EXCEPT !.pc = "fetch", !.text = text, !.confirmed = confirmed,
                     !.sid = agentSessionId, !.per = nOpen]

\* callVoiceCommandAPI(text, confirmed) up to `await fetch(...)`
callVoiceCommandAPI(text, confirmed) ==
  /\ isProcessingAgent' = TRUE
  /\ assistantState' = "agent-processing"
  /\ IF SetStatusTextThrows
     THEN /\ disp' = disp
          /\ out' = {}
     ELSE /\ disp' = [disp EXCEPT ![nDisp + 1] = Request(text, confirmed)]
          /\ out' = {"request"}

\* speakSummary with a seeded fault: the message is sent whatever the channel's state.
speakUnguarded(text) == IF text # <<>> THEN {"speak"} ELSE {}

\* speakSummary with a seeded fault: the message is sent whatever the state of
\* the channel.
speakSummaryUnguarded(text) == IF text # <<>> THEN {"speak"} ELSE {}

\* speakSummary(text): the clientContent message is sent or silently dropped
speakSummary(text) == IF text # <<>> /\ ChannelReady THEN {"speak"} ELSE {}

SomeText == <<"t">>

\* cancelConfirmation with a seeded fault: TurnState is left as it was.
cancelKeepsState ==
  /\ pendingConfirmation' = NoPending
  /\ IF SetStatusTextThrows
     THEN out' = {}
     ELSE out' = {"cancelled"} \cup speakSummary(SomeText)
  /\ UNCHANGED <<assistantState, isProcessingAgent, disp>>

\* handleConfirmationResponse, the non-affirmative branch
cancelConfirmation ==
  /\ pendingConfirmation' = NoPending
  /\ IF SetStatusTextThrows
     THEN /\ out' = {}
          /\ UNCHANGED assistantState
     ELSE /\ out' = {"cancelled"} \cup speakSummary(SomeText)
          /\ assistantState' = StateFor(micOn)
  /\ UNCHANGED <<isProcessingAgent, disp>>

\* routeTranscript(transcript)
routeTranscript(transcript) ==
  LET kind == RouteKind(transcript)
  IN CASE kind = "confirm" ->
            /\ pendingConfirmation' = NoPending
            /\ callVoiceCommandAPI(pendingConfirmation.text, TRUE)
       [] kind = "cancel" -> cancelConfirmation
       [] kind = "dispatch" ->
            /\ callVoiceCommandAPI(transcript, FALSE)
            /\ UNCHANGED pendingConfirmation
       [] OTHER ->
            /\ out' = {kind}
            /\ UNCHANGED <<assistantState, isProcessingAgent, pendingConfirmation,
                           disp>>

\* The rest of onmessage for the i-th suspended handler.
HandleMessage(i) ==
  /\ pc = Idle /\ i \in 1..Len(inbox)
  /\ inbox' = Remove(inbox, i)
  /\ LET m == inbox[i]
     IN CASE m.k = "setupComplete" ->
               /\ wsReady' = TRUE
               /\ out' = {}
               /\ UNCHANGED <<assistantState, transcriptBuffer, playbackQueue,
                              isProcessingAgent, pendingConfirmation, asked, disp, pc>>
          [] m.k = "text" ->
               /\ transcriptBuffer' = transcriptBuffer \o m.text
               /\ out' = {}
               /\ UNCHANGED <<assistantState, wsReady, playbackQueue,
                              isProcessingAgent, pendingConfirmation, asked, disp, pc>>
          [] m.k = "audio" ->
               /\ assistantState' = "speaking"
               /\ playbackQueue' = Append(playbackQueue, m.frag)
               /\ pc' = IF isPlaying THEN Idle ELSE [k |-> "ppq", d |-> 0]
               /\ out' = {}
               /\ UNCHANGED <<wsReady, transcriptBuffer, isProcessingAgent,
                              pendingConfirmation, asked, disp>>
          [] m.k = "turn" ->
               LET transcript == Trim(transcriptBuffer)
               IN /\ transcriptBuffer' = <<>>
                  /\ IF transcript # <<>>
                     THEN /\ (RouteKind(transcript) \in {"confirm", "dispatch"}
                                /\ ~SetStatusTextThrows) => nDisp < MaxDispatch
                          /\ routeTranscript(transcript)
                          /\ asked' = 0
                     ELSE /\ out' = {}
                          /\ UNCHANGED <<assistantState, isProcessingAgent,
                                         pendingConfirmation, asked, disp>>
                  /\ pc' = [k |-> "drain", d |-> 0]
                  /\ UNCHANGED <<wsReady, playbackQueue>>
  /\ UNCHANGED <<statusTextDefined, overlayVars, micOn, micVars, sock, geminiWs,
                 isPlaying, playbackContext, resumeWaiters, sources, startLog,
                 nextFrag, timerVars, drainWaiters, agentSessionId>>

\* The callback handed to waitForAudioDrain by the turnComplete branch
drainCallback ==
  assistantState' = IF isProcessingAgent THEN assistantState ELSE StateFor(micOn)

\* waitForAudioDrain(callback), first call, at the end of the turnComplete branch
WaitForAudioDrain ==
  /\ pc.k = "drain"
  /\ IF Drained
     THEN drainCallback /\ UNCHANGED drainWaiters
     ELSE drainWaiters' = drainWaiters + 1 /\ UNCHANGED assistantState
  /\ pc' = Idle
  /\ out' = {}
  /\ UNCHANGED <<statusTextDefined, overlayVars, micOn, micVars, wsVars, inbox,
                 transcriptBuffer, pbVars, nextFrag, timerVars, agentVars>>

\* The 200 ms poll of waitForAudioDrain finding the queue drained
DrainPoll ==
  /\ pc = Idle /\ drainWaiters > 0 /\ Drained
  /\ drainCallback
  /\ drainWaiters' = drainWaiters - 1
  /\ out' = {}
  /\ UNCHANGED <<statusTextDefined, overlayVars, micOn, micVars, wsVars, inbox,
                 transcriptBuffer, pbVars, nextFrag, timerVars, agentVars, pc>>

(***************************************************************************)
(* 4. Audio playback queue                                                 *)
(***************************************************************************)
PPQ == [k |-> "ppq", d |-> 0]

\* source.start(0) for fragment f in the live context
startSource(f) ==
  /\ sources' = sources \cup {[frag |-> f, live |-> TRUE]}
  /\ startLog' = Append(startLog, f)

\* processPlaybackQueue(), from its first line to its first suspension or return.
\* ctx is the state a newly created AudioContext starts in; decodes is whether
\* atob / createBuffer accept the fragment.
ProcessPlaybackQueue(ctx, decodes) ==
  /\ pc = PPQ
  /\ IF isPlaying
     THEN pc' = Idle /\ UNCHANGED pbVars
     ELSE IF playbackQueue = <<>>
     THEN pc' = Idle /\ UNCHANGED pbVars
     ELSE LET f  == Head(playbackQueue)
              st == IF playbackContext = "none" THEN ctx ELSE playbackContext
          IN /\ playbackQueue' = Tail(playbackQueue)
             /\ IF st = "suspended"
                THEN /\ isPlaying' = TRUE
                     /\ playbackContext' = "suspended"
                     /\ resumeWaiters' =
                          Append(resumeWaiters, [frag |-> f, live |-> TRUE])
                     /\ pc' = Idle
                     /\ UNCHANGED <<sources, startLog>>
                ELSE /\ playbackContext' = "running"
                     /\ UNCHANGED resumeWaiters
                     /\ IF decodes
                        THEN isPlaying' = TRUE /\ startSource(f) /\ pc' = Idle
                        ELSE isPlaying' = FALSE /\ pc' = PPQ
                               /\ UNCHANGED <<sources, startLog>>
  /\ out' = {}
  /\ UNCHANGED <<statusTextDefined, overlayVars, micOn, assistantState, micVars,
                 wsVars, inbox, transcriptBuffer, nextFrag, timerVars, drainWaiters,
                 agentVars>>

\* `await playbackContext.resume()` settles for the i-th waiting call: it
\* resolves while the context lives and rejects once the context is closed.
\* Promises of one context settle in the order of the calls.
ResumeSettle(i, decodes) ==
  /\ pc = Idle /\ i \in 1..Len(resumeWaiters)
  /\ \A j \in 1..(i - 1) : resumeWaiters[j].live # resumeWaiters[i].live
  /\ resumeWaiters' = Remove(resumeWaiters, i)
  /\ LET w == resumeWaiters[i]
     IN IF w.live /\ decodes
        THEN /\ playbackContext' = "running"
             /\ startSource(w.frag)
             /\ UNCHANGED <<isPlaying, pc>>
        ELSE /\ playbackContext' = IF w.live THEN "running" ELSE playbackContext
             /\ isPlaying' = FALSE
             /\ pc' = PPQ
             /\ UNCHANGED <<sources, startLog>>
  /\ out' = {}
  /\ UNCHANGED <<statusTextDefined, overlayVars, micOn, assistantState, micVars,
                 wsVars, inbox, transcriptBuffer, playbackQueue, nextFrag, timerVars,
                 drainWaiters, agentVars>>

\* source.onended of a started source
SourceEnded(x) ==
  /\ pc = Idle /\ x \in sources
  /\ sources' = sources \ {x}
  /\ isPlaying' = FALSE
  /\ pc' = PPQ
  /\ out' = {}
  /\ UNCHANGED <<statusTextDefined, overlayVars, micOn, assistantState, micVars,
                 wsVars, inbox, transcriptBuffer, playbackQueue, playbackContext,
                 resumeWaiters, startLog, nextFrag, timerVars, drainWaiters,
                 agentVars>>

\* The fragments audible now: started, not ended, context not closed
Playing == {x \in sources : x.live}

(***************************************************************************)
(* 5. Microphone callback, 6. idle timers, stay-active button              *)
(***************************************************************************)
\* AudioFrame with a seeded fault: silence suppression, a frame is sent only
\* when its energy exceeds the threshold.
AudioFrameGated(loud, lapsed) ==
  /\ pc = Idle /\ micProcessor /\ micOn /\ wsReady
  /\ out' = IF ChannelReady /\ loud THEN {"chunk"} ELSE {}
  /\ IF loud /\ ~isSpeaking
     THEN /\ isSpeaking' = TRUE
          /\ assistantState' = "listening"
          /\ resetIdleTimer(micOn)
     ELSE IF ~loud /\ isSpeaking /\ lapsed
     THEN /\ isSpeaking' = FALSE
          /\ assistantState' = "processing"
          /\ resetIdleTimer(micOn)
     ELSE UNCHANGED <<isSpeaking, assistantState, timerVars>>
  /\ UNCHANGED <<statusTextDefined, overlayVars, micOn, audioContext, micStream,
                 micProcessor, acq, leaked, wsVars, inbox, transcriptBuffer, pbVars,
                 nextFrag, drainWaiters, agentVars, pc>>

\* micProcessor.onaudioprocess for one frame.  loud: the frame's RMS energy
\* exceeds SILENCE_THRESHOLD; lapsed: SILENCE_AFTER_SPEECH_MS of silence passed.
AudioFrame(loud, lapsed) ==
  /\ pc = Idle /\ micProcessor /\ micOn /\ wsReady
  /\ out' = IF ChannelReady THEN {"chunk"} ELSE {}
  /\ IF loud /\ ~isSpeaking
     THEN /\ isSpeaking' = TRUE
          /\ assistantState' = "listening"
          /\ resetIdleTimer(micOn)
     ELSE IF ~loud /\ isSpeaking /\ lapsed
     THEN /\ isSpeaking' = FALSE
          /\ assistantState' = "processing"
          /\ resetIdleTimer(micOn)
     ELSE UNCHANGED <<isSpeaking, assistantState, timerVars>>
  /\ UNCHANGED <<statusTextDefined, overlayVars, micOn, audioContext, micStream,
                 micProcessor, acq, leaked, wsVars, inbox, transcriptBuffer, pbVars,
                 nextFrag, drainWaiters, agentVars, pc>>

\* The warning timer set by resetIdleTimer fires (30 s)
WarningFires ==
  /\ pc = Idle /\ warningTimer
  /\ warningTimer' = FALSE
  /\ assistantState' = "timeout-warning"
  /\ closeTimer' = TRUE
  /\ out' = {}
  /\ UNCHANGED <<statusTextDefined, overlayVars, micOn, micVars, wsVars, inbox,
                 transcriptBuffer, pbVars, nextFrag, drainWaiters, agentVars, pc>>

\* The close timer fires (5 s after the warning): closeOverlay()
CloseTimerFires ==
  /\ pc = Idle /\ closeTimer
  /\ closeOverlay
  /\ UNCHANGED <<statusTextDefined, nOpen, assistantState, inbox, transcriptBuffer,
                 nextFrag, drainWaiters, isProcessingAgent, pendingConfirmation, asked,
                 disp, pc>>

\* Click on the stay-active button of the visible warning banner
StayActive ==
  /\ pc = Idle /\ isOpen /\ closeTimer
  /\ resetIdleTimer(micOn)
  /\ assistantState' = "listening"
  /\ out' = {}
  /\ UNCHANGED <<statusTextDefined, overlayVars, micOn, micVars, wsVars, inbox,
                 transcriptBuffer, pbVars, nextFrag, drainWaiters, agentVars, pc>>

(***************************************************************************)
(* 9. Agent integration: the response of /api/voice-command                *)
(***************************************************************************)
Finally(d) == [k |-> "finally", d |-> d]

\* Scenario-B recogniser over the events read so far: "p" progress*,
\* "r" ... result, "s" ... summary, "d" ... done, "e" once an error event
\* was read, "m" once an event whose data does not parse was read (and no
\* error event before it), "x" anything else.
\* session and chunk events leave it where it is.
NextShape(shape, e) ==
  CASE shape = "m" -> "m"
    [] shape = "e" \/ e = "error" -> "e"
    [] e = "malformed" -> "m"
    [] e \in {"session", "chunk"} -> shape
    [] e = "progress" -> IF shape = "p" THEN "p" ELSE "x"
    [] e = "result" -> IF shape = "p" THEN "r" ELSE "x"
    [] e = "summary" -> IF shape = "r" THEN "s" ELSE "x"
    [] e = "done" -> IF shape = "s" THEN "d" ELSE "x"
    [] OTHER -> "x"

\* The record of request d after event e was read.  The counts of speak
\* requests and history-sync signals are kept while the events read so far
\* are a prefix of scenario B.
Seen(r, e) ==
  LET sh == NextShape(r.shape, e)
  IN [r EXCEPT !.n = @ + 1, !.shape = sh,
               !.speaks = IF sh \in {"x", "e", "m"} THEN 0 ELSE @,
               !.syncs = IF sh \in {"x", "e", "m"} THEN 0 ELSE @]

Spoke(r, spoken) ==
  [r EXCEPT !.speaks = IF r.shape \in {"x", "e", "m"} THEN 0
                       ELSE @ + Cardinality(spoken)]

Synced(r) ==
  [r EXCEPT !.syncs = IF r.shape \in {"x", "e", "m"} THEN 0 ELSE @ + 1]

\* fetch resolves with response.ok
FetchOk(d) ==
  /\ pc = Idle /\ disp[d].pc = "fetch"
  /\ disp' = [disp EXCEPT ![d].pc = "stream"]
  /\ out' = {}
  /\ UNCHANGED <<statusTextDefined, overlayVars, micOn, assistantState, micVars,
                 wsVars, inbox, transcriptBuffer, pbVars, nextFrag, timerVars,
                 drainWaiters, agentSessionId, isProcessingAgent,
                 pendingConfirmation, asked, pc>>

\* fetch rejects, or resolves with a non-success status: the catch block
\* (console.error and showError), then finally
FetchFail(d) ==
  /\ pc = Idle /\ disp[d].pc = "fetch"
  /\ disp' = [disp EXCEPT ![d].pc = "exit"]
  /\ pc' = Finally(d)
  /\ out' = {"error"}
  /\ UNCHANGED <<statusTextDefined, overlayVars, micOn, assistantState, micVars,
                 wsVars, inbox, transcriptBuffer, pbVars, nextFrag, timerVars,
                 drainWaiters, agentSessionId, isProcessingAgent,
                 pendingConfirmation, asked>>

\* reader.read() reports the end of the stream, or rejects
StreamEnd(d) ==
  /\ pc = Idle /\ disp[d].pc = "stream"
  /\ disp' = [disp EXCEPT ![d].pc = "exit"]
  /\ pc' = Finally(d)
  /\ out' = {}
  /\ UNCHANGED <<statusTextDefined, overlayVars, micOn, assistantState, micVars,
                 wsVars, inbox, transcriptBuffer, pbVars, nextFrag, timerVars,
                 drainWaiters, agentSessionId, isProcessingAgent,
                 pendingConfirmation, asked>>

\* handleConfirmationGate(data) for the response of request d; the backend
\* echoes the request's text as data.original_text.
handleConfirmationGate(d) ==
  /\ pendingConfirmation' = [set |-> TRUE, text |-> disp[d].text, by |-> d]
  /\ asked' = d
  /\ assistantState' = "awaiting-confirmation"
  /\ out' = speakSummary(SomeText)

\* StreamEvent with a seeded fault: the confirmation_required case leaves the
\* switch with break instead of return, and the loop reads on.
StreamEventGateReadsOn(d, e, id) ==
  /\ pc = Idle /\ disp[d].pc = "stream" /\ disp[d].n < MaxEvents
  /\ LET r == Seen(disp[d], e)
     IN CASE e = "session" ->
               /\ agentSessionId' = id
               /\ disp' = [disp EXCEPT ![d] = r]
               /\ out' = {}
               /\ UNCHANGED <<assistantState, pendingConfirmation, asked, pc>>
          [] e = "confirmation_required" ->
               /\ handleConfirmationGate(d)
               /\ disp' = [disp EXCEPT ![d] = Spoke(r, speakSummary(SomeText))]
               /\ UNCHANGED <<agentSessionId, pc>>
          [] e \in {"summary", "summary_empty", "error"} ->
               LET spoken == speakSummary(IF e = "summary_empty" THEN <<>> ELSE SomeText)
               IN /\ out' = spoken \cup (IF e = "error" THEN {"error"} ELSE {})
                  /\ disp' = [disp EXCEPT ![d] = Spoke(r, spoken)]
                  /\ UNCHANGED <<agentSessionId, assistantState,
                                 pendingConfirmation, asked, pc>>
          [] e = "done" ->
               /\ out' = {"sync"}
               /\ disp' = [disp EXCEPT ![d] = Synced(r)]
               /\ UNCHANGED <<agentSessionId, assistantState, pendingConfirmation, asked, pc>>
          [] OTHER ->
               /\ out' = {}
               /\ disp' = [disp EXCEPT ![d] = r]
               /\ UNCHANGED <<agentSessionId, assistantState, pendingConfirmation, asked, pc>>
  /\ UNCHANGED <<statusTextDefined, overlayVars, micOn, micVars, wsVars, inbox,
                 transcriptBuffer, pbVars, nextFrag, timerVars, drainWaiters,
                 isProcessingAgent>>

\* consumeSSEStream: one event of the response of request d, in arrival order
StreamEvent(d, e, id) ==
  /\ pc = Idle /\ disp[d].pc = "stream" /\ disp[d].n < MaxEvents
  /\ LET r == Seen(disp[d], e)
     IN CASE e = "session" ->
               /\ agentSessionId' = id
               /\ disp' = [disp EXCEPT ![d] = r]
               /\ out' = {}
               /\ UNCHANGED <<assistantState, pendingConfirmation, asked, pc>>
          [] e = "confirmation_required" ->
               /\ handleConfirmationGate(d)
               /\ disp' = [disp EXCEPT ![d] =
                             [Spoke(r, speakSummary(SomeText)) EXCEPT !.pc = "exit"]]
               /\ pc' = Finally(d)
               /\ UNCHANGED agentSessionId
          [] e \in {"summary", "summary_empty", "error"} ->
               LET spoken == speakSummary(IF e = "summary_empty" THEN <<>> ELSE SomeText)
               IN /\ out' = spoken \cup (IF e = "error" THEN {"error"} ELSE {})
                  /\ disp' = [disp EXCEPT ![d] = Spoke(r, spoken)]
                  /\ UNCHANGED <<agentSessionId, assistantState,
                                 pendingConfirmation, asked, pc>>
          [] e = "done" ->
               /\ out' = {"sync"}
               /\ disp' = [disp EXCEPT ![d] = Synced(r)]
               /\ UNCHANGED <<agentSessionId, assistantState, pendingConfirmation, asked, pc>>
          [] OTHER ->
               /\ out' = {}
               /\ disp' = [disp EXCEPT ![d] = r]
               /\ UNCHANGED <<agentSessionId, assistantState, pendingConfirmation, asked, pc>>
  /\ UNCHANGED <<statusTextDefined, overlayVars, micOn, micVars, wsVars, inbox,
                 transcriptBuffer, pbVars, nextFrag, timerVars, drainWaiters,
                 isProcessingAgent>>

\* CallFinally with a seeded fault: the in-flight flag is left as it was.
CallFinallyKeepsFlag ==
  /\ pc.k = "finally"
  /\ assistantState' = StateFor(micOn)
  /\ disp' = [disp EXCEPT ![pc.d] =
                [@ EXCEPT !.pc = "done", !.n = 0, !.shape = "p", !.speaks = 0,
                          !.syncs = 0]]
  /\ pc' = Idle
  /\ out' = {}
  /\ UNCHANGED <<statusTextDefined, overlayVars, micOn, isProcessingAgent, micVars,
                 wsVars, inbox, transcriptBuffer, pbVars, nextFrag, timerVars,
                 drainWaiters, agentSessionId, pendingConfirmation, asked>>

\* CallFinally with a seeded fault: TurnState is left as it was.
CallFinallyKeepsState ==
  /\ pc.k = "finally"
  /\ isProcessingAgent' = FALSE
  /\ disp' = [disp EXCEPT ![pc.d] =
                [@ EXCEPT !.pc = "done", !.n = 0, !.shape = "p", !.speaks = 0,
                          !.syncs = 0]]
  /\ pc' = Idle
  /\ out' = {}
  /\ UNCHANGED <<statusTextDefined, overlayVars, micOn, assistantState, micVars,
                 wsVars, inbox, transcriptBuffer, pbVars, nextFrag, timerVars,
                 drainWaiters, agentSessionId, pendingConfirmation, asked>>

\* The finally block of callVoiceCommandAPI for request d
CallFinally ==
  /\ pc.k = "finally"
  /\ isProcessingAgent' = FALSE
  /\ assistantState' = StateFor(micOn)
  /\ disp' = [disp EXCEPT ![pc.d] =
                [@ EXCEPT !.pc = "done", !.n = 0, !.shape = "p", !.speaks = 0,
                          !.syncs = 0]]
  /\ pc' = Idle
  /\ out' = {}
  /\ UNCHANGED <<statusTextDefined, overlayVars, micOn, micVars, wsVars, inbox,
                 transcriptBuffer, pbVars, nextFrag, timerVars, drainWaiters,
                 agentSessionId, pendingConfirmation, asked>>

Next ==
  \/ OpenOverlay
  \/ CloseOverlay
  \/ CloseNotifySettles
  \/ ToggleMicOn
  \/ ToggleMicOff
  \/ \E granted \in BOOLEAN : AcqSettle(granted)
  \/ \E s \in 1..MaxSock : SocketOpen(s)
  \/ \E s \in 1..MaxSock : SocketError(s)
  \/ \E s \in 1..MaxSock : SocketClose(s)
  \/ \E s \in 1..MaxSock : ServerSetupComplete(s)
  \/ \E s \in 1..MaxSock, p \in TextParts : ServerText(s, p)
  \/ \E s \in 1..MaxSock : ServerAudio(s)
  \/ \E s \in 1..MaxSock : ServerTurnComplete(s)
  \/ \E i \in 1..MaxInbox : HandleMessage(i)
  \/ WaitForAudioDrain
  \/ DrainPoll
  \/ \E ctx \in {"suspended", "running"}, decodes \in BOOLEAN :
       ProcessPlaybackQueue(ctx, decodes)
  \/ \E i \in 1..MaxFrag, decodes \in BOOLEAN : ResumeSettle(i, decodes)
  \/ \E x \in sources : SourceEnded(x)
  \/ \E loud \in BOOLEAN, lapsed \in BOOLEAN : AudioFrame(loud, lapsed)
  \/ WarningFires
  \/ CloseTimerFires
  \/ StayActive
  \/ \E d \in 1..MaxDispatch : FetchOk(d)
  \/ \E d \in 1..MaxDispatch : FetchFail(d)
  \/ \E d \in 1..MaxDispatch, e \in EventTypes, id \in SessionIds :
       StreamEvent(d, e, id)
  \/ \E d \in 1..MaxDispatch : StreamEnd(d)
  \/ CallFinally

Spec == Init /\ [][Next]_vars

(***************************************************************************)
(* The whole program is too large to enumerate in one run; the claims are  *)
(* checked on sub-systems.       Each takes every action that writes a     *)
(* variable its handlers read and leaves the other inputs out.             *)
(***************************************************************************)
Overlay ==
  \/ OpenOverlay
  \/ CloseOverlay
  \/ ToggleMicOn
  \/ ToggleMicOff
  \/ \E granted \in BOOLEAN : AcqSettle(granted)

Channel ==
  \/ \E s \in 1..MaxSock : SocketOpen(s)
  \/ \E s \in 1..MaxSock : SocketError(s)
  \/ \E s \in 1..MaxSock : SocketClose(s)
  \/ \E s \in 1..MaxSock : ServerSetupComplete(s)
  \/ \E i \in 1..MaxInbox : HandleMessage(i)

\* The microphone permission prompt is answered before anything else happens.
Settled == acq = 0

\* The events of a stream that does not ask for confirmation.
PlainEvents == EventTypes \ {"confirmation_required"}

\* The transcript router: no audio arrives, the idle timers never fire, and
\* a stream delivers nothing but confirmation requests.
NextRoute ==
  \/ \E granted \in BOOLEAN : AcqSettle(granted)
  \/ Settled /\ OpenOverlay
  \/ Settled /\ CloseOverlay
  \/ Settled /\ ToggleMicOn
  \/ Settled /\ ToggleMicOff
  \/ \E s \in 1..MaxSock : Settled /\ SocketOpen(s)
  \/ \E s \in 1..MaxSock : Settled /\ SocketError(s)
  \/ \E s \in 1..MaxSock : Settled /\ SocketClose(s)
  \/ \E s \in 1..MaxSock : Settled /\ ServerSetupComplete(s)
  \/ \E i \in 1..MaxInbox : Settled /\ HandleMessage(i)
  \/ \E s \in 1..MaxSock, p \in TextParts : Settled /\ ServerText(s, p)
  \/ \E s \in 1..MaxSock : Settled /\ ServerTurnComplete(s)
  \/ Settled /\ WaitForAudioDrain
  \/ \E d \in 1..MaxDispatch : Settled /\ FetchOk(d)
  \/ \E d \in 1..MaxDispatch : Settled /\ FetchFail(d)
  \/ \E d \in 1..MaxDispatch :
       Settled /\ StreamEvent(d, "confirmation_required", 1)
  \/ \E d \in 1..MaxDispatch : Settled /\ StreamEnd(d)
  \/ Settled /\ CallFinally

SpecRoute == Init /\ [][NextRoute]_vars

\* The server sends a message once the previous one was handled.
Calm == Settled /\ inbox = <<>>

\* The stream consumer: every transcript is a command, the microphone is
\* granted, the socket does not fail, and no stream asks for confirmation.
NextStream ==
  \/ AcqSettle(TRUE)
  \/ Settled /\ OpenOverlay
  \/ Settled /\ CloseOverlay
  \/ Settled /\ ToggleMicOn
  \/ Settled /\ ToggleMicOff
  \/ \E s \in 1..MaxSock : Settled /\ SocketOpen(s)
  \/ \E s \in 1..MaxSock : Settled /\ SocketClose(s)
  \/ \E s \in 1..MaxSock : Calm /\ ServerSetupComplete(s)
  \/ \E i \in 1..MaxInbox : Settled /\ HandleMessage(i)
  \/ \E s \in 1..MaxSock : Calm /\ ServerText(s, Cmd)
  \/ \E s \in 1..MaxSock : Calm /\ ServerTurnComplete(s)
  \/ Settled /\ WaitForAudioDrain
  \/ \E d \in 1..MaxDispatch : Settled /\ FetchOk(d)
  \/ \E d \in 1..MaxDispatch : Settled /\ FetchFail(d)
  \/ \E d \in 1..MaxDispatch, e \in PlainEvents :
       Settled /\ StreamEvent(d, e, 1)
  \/ \E d \in 1..MaxDispatch : Settled /\ StreamEnd(d)
  \/ Settled /\ CallFinally

SpecStream == Init /\ [][NextStream]_vars

\* The playback sequencer: no text arrives, the idle timers never fire, the
\* microphone is granted and the socket does not fail.
NextPlayback ==
  \/ AcqSettle(TRUE)
  \/ Settled /\ OpenOverlay
  \/ Settled /\ CloseOverlay
  \/ Settled /\ ToggleMicOn
  \/ Settled /\ ToggleMicOff
  \/ \E s \in 1..MaxSock : Settled /\ SocketOpen(s)
  \/ \E s \in 1..MaxSock : Settled /\ SocketClose(s)
  \/ \E s \in 1..MaxSock : Calm /\ ServerSetupComplete(s)
  \/ \E i \in 1..MaxInbox : Settled /\ HandleMessage(i)
  \/ \E s \in 1..MaxSock : Settled /\ ServerAudio(s)
  \/ \E s \in 1..MaxSock : Calm /\ ServerTurnComplete(s)
  \/ Settled /\ WaitForAudioDrain
  \/ Settled /\ DrainPoll
  \/ \E ctx \in {"suspended", "running"}, decodes \in BOOLEAN :
       Settled /\ ProcessPlaybackQueue(ctx, decodes)
  \/ \E i \in 1..MaxFrag, decodes \in BOOLEAN : Settled /\ ResumeSettle(i, decodes)
  \/ \E x \in sources : Settled /\ SourceEnded(x)

SpecPlayback == Init /\ [][NextPlayback]_vars

\* The life of a call: the overlay is opened, every transcript is a command,
\* the microphone is granted, the socket does not fail, and a stream carries
\* progress, error and done events.
NextLive ==
  \/ AcqSettle(TRUE)
  \/ Settled /\ OpenOverlay
  \/ Settled /\ CloseOverlay
  \/ Settled /\ ToggleMicOn
  \/ \E s \in 1..MaxSock : Settled /\ SocketOpen(s)
  \/ \E s \in 1..MaxSock : Calm /\ ServerSetupComplete(s)
  \/ \E i \in 1..MaxInbox : Settled /\ HandleMessage(i)
  \/ \E s \in 1..MaxSock : Calm /\ ServerText(s, Cmd)
  \/ \E s \in 1..MaxSock : Calm /\ ServerTurnComplete(s)
  \/ Settled /\ WaitForAudioDrain
  \/ \E d \in 1..MaxDispatch : Settled /\ FetchOk(d)
  \/ \E d \in 1..MaxDispatch : Settled /\ FetchFail(d)
  \/ \E d \in 1..MaxDispatch, e \in {"progress", "error", "done"} :
       Settled /\ StreamEvent(d, e, 1)
  \/ \E d \in 1..MaxDispatch : Settled /\ StreamEnd(d)
  \/ Settled /\ CallFinally

\* The backend response eventually ends or fails: a pending fetch settles and
\* an open stream ends, however often other tasks run in between.
ResponseEnds ==
  /\ SF_vars(\E d \in 1..MaxDispatch : Settled /\ (FetchOk(d) \/ FetchFail(d)))
  /\ SF_vars(\E d \in 1..MaxDispatch : Settled /\ StreamEnd(d))

\* The event loop runs a continuation that is ready: the microtask after an
\* await, and the pending answer of the permission prompt.
EventLoop ==
  /\ WF_vars(Settled /\ CallFinally)
  /\ WF_vars(Settled /\ WaitForAudioDrain)
  /\ WF_vars(AcqSettle(TRUE))

SpecLive == Init /\ [][NextLive]_vars /\ ResponseEnds /\ EventLoop

\* _stream_voice_response, step 1: a request that carries no session id gets
\* a new session, and its id is the first event of the response.
BackendSession(d) == disp[d].sid = 0 /\ disp[d].n = 0

\* The backend session: every transcript is a command, the microphone is
\* granted, the socket does not fail, no audio arrives, and the stream of
\* request d carries the session event of the backend, with the new id d.
NextSession ==
  \/ AcqSettle(TRUE)
  \/ Settled /\ OpenOverlay
  \/ Settled /\ CloseOverlay
  \/ Settled /\ CloseNotifySettles
  \/ Settled /\ ToggleMicOn
  \/ \E s \in 1..MaxSock : Settled /\ SocketOpen(s)
  \/ \E s \in 1..MaxSock : Calm /\ ServerSetupComplete(s)
  \/ \E i \in 1..MaxInbox : Settled /\ HandleMessage(i)
  \/ \E s \in 1..MaxSock : Calm /\ ServerText(s, Cmd)
  \/ \E s \in 1..MaxSock : Calm /\ ServerTurnComplete(s)
  \/ Settled /\ WaitForAudioDrain
  \/ \E d \in 1..MaxDispatch : Settled /\ FetchOk(d)
  \/ \E d \in 1..MaxDispatch :
       Settled /\ BackendSession(d) /\ StreamEvent(d, "session", d)
  \/ \E d \in 1..MaxDispatch : Settled /\ StreamEnd(d)
  \/ Settled /\ CallFinally

SpecSession == Init /\ [][NextSession]_vars

\* The confirmation gate: a transcript is a command or a reply, the
\* microphone is granted, the socket does not fail, and a stream carries
\* confirmation requests, results, summaries and done events.
NextGate ==
  \/ AcqSettle(TRUE)
  \/ Settled /\ OpenOverlay
  \/ Settled /\ CloseOverlay
  \/ Settled /\ ToggleMicOn
  \/ Settled /\ ToggleMicOff
  \/ \E s \in 1..MaxSock : Settled /\ SocketOpen(s)
  \/ \E s \in 1..MaxSock : Calm /\ ServerSetupComplete(s)
  \/ \E i \in 1..MaxInbox : Settled /\ HandleMessage(i)
  \/ \E s \in 1..MaxSock, p \in {Cmd, Yes, No} : Calm /\ ServerText(s, p)
  \/ \E s \in 1..MaxSock : Calm /\ ServerTurnComplete(s)
  \/ Settled /\ WaitForAudioDrain
  \/ \E d \in 1..MaxDispatch : Settled /\ FetchOk(d)
  \/ \E d \in 1..MaxDispatch,
        e \in {"confirmation_required", "result", "summary", "done"} :
       Settled /\ StreamEvent(d, e, 1)
  \/ \E d \in 1..MaxDispatch : Settled /\ StreamEnd(d)
  \/ Settled /\ CallFinally

SpecGate == Init /\ [][NextGate]_vars

\* Malformed events: every transcript is a command, the microphone is
\* granted, the socket does not fail, and a stream carries events whose data
\* does not parse next to summaries and done events.
NextProtocol ==
  \/ AcqSettle(TRUE)
  \/ Settled /\ OpenOverlay
  \/ Settled /\ ToggleMicOn
  \/ Settled /\ ToggleMicOff
  \/ \E s \in 1..MaxSock : Settled /\ SocketOpen(s)
  \/ \E s \in 1..MaxSock : Calm /\ ServerSetupComplete(s)
  \/ \E i \in 1..MaxInbox : Settled /\ HandleMessage(i)
  \/ \E s \in 1..MaxSock : Calm /\ ServerText(s, Cmd)
  \/ \E s \in 1..MaxSock : Calm /\ ServerTurnComplete(s)
  \/ Settled /\ WaitForAudioDrain
  \/ \E d \in 1..MaxDispatch : Settled /\ FetchOk(d)
  \/ \E d \in 1..MaxDispatch, e \in {"malformed", "summary", "done"} :
       Settled /\ StreamEvent(d, e, 1)
  \/ \E d \in 1..MaxDispatch : Settled /\ StreamEnd(d)
  \/ Settled /\ CallFinally

SpecProtocol == Init /\ [][NextProtocol]_vars

\* Channel failures: every transcript is a command, the microphone is
\* granted, a connection may fail or close at any time, frames are captured,
\* and a stream carries a result and a summary.
NextChannel ==
  \/ AcqSettle(TRUE)
  \/ Settled /\ OpenOverlay
  \/ Settled /\ CloseOverlay
  \/ Settled /\ ToggleMicOn
  \/ Settled /\ ToggleMicOff
  \/ \E s \in 1..MaxSock : Settled /\ SocketOpen(s)
  \/ \E s \in 1..MaxSock : Settled /\ SocketError(s)
  \/ \E s \in 1..MaxSock : Settled /\ SocketClose(s)
  \/ \E s \in 1..MaxSock : Calm /\ ServerSetupComplete(s)
  \/ \E i \in 1..MaxInbox : Settled /\ HandleMessage(i)
  \/ \E s \in 1..MaxSock : Calm /\ ServerText(s, Cmd)
  \/ \E s \in 1..MaxSock : Calm /\ ServerTurnComplete(s)
  \/ Settled /\ WaitForAudioDrain
  \/ \E loud \in BOOLEAN : Settled /\ AudioFrame(loud, TRUE)
  \/ \E d \in 1..MaxDispatch : Settled /\ FetchOk(d)
  \/ \E d \in 1..MaxDispatch, e \in {"result", "summary"} :
       Settled /\ StreamEvent(d, e, 1)
  \/ \E d \in 1..MaxDispatch : Settled /\ StreamEnd(d)
  \/ Settled /\ CallFinally

SpecChannel == Init /\ [][NextChannel]_vars

\* One spoken turn: the overlay stays open, the microphone is granted, the
\* socket does not fail, and the server sends one audio fragment, then
\* turnComplete, and commands as text.
NextSpeak ==
  \/ AcqSettle(TRUE)
  \/ Settled /\ OpenOverlay
  \/ Settled /\ (SockOpen(geminiWs) \/ nSock < MaxSock) /\ ToggleMicOn
  \/ \E s \in 1..MaxSock : Settled /\ SocketOpen(s)
  \/ \E s \in 1..MaxSock : Calm /\ ServerSetupComplete(s)
  \/ \E i \in 1..MaxInbox : Settled /\ HandleMessage(i)
  \/ \E s \in 1..MaxSock : Calm /\ ServerText(s, Cmd)
  \/ \E s \in 1..MaxSock : Settled /\ nextFrag = 1 /\ ServerAudio(s)
  \/ \E s \in 1..MaxSock : Settled /\ nextFrag = 2 /\ ServerTurnComplete(s)
  \/ Settled /\ WaitForAudioDrain
  \/ Settled /\ DrainPoll
  \/ \E decodes \in BOOLEAN : Settled /\ ProcessPlaybackQueue("running", decodes)
  \/ \E x \in sources : Settled /\ SourceEnded(x)
  \/ \E d \in 1..MaxDispatch : Settled /\ FetchOk(d)
  \/ \E d \in 1..MaxDispatch : Settled /\ StreamEvent(d, "done", 1)
  \/ \E d \in 1..MaxDispatch : Settled /\ StreamEnd(d)
  \/ Settled /\ CallFinally

\* The event loop runs every task that is ready: a suspended onmessage
\* handler, the poll of waitForAudioDrain, the playback queue, the end of a
\* playing source.
PlaybackLoop ==
  /\ WF_vars(\E i \in 1..MaxInbox : Settled /\ HandleMessage(i))
  /\ WF_vars(Settled /\ DrainPoll)
  /\ WF_vars(\E decodes \in BOOLEAN : Settled /\ ProcessPlaybackQueue("running", decodes))
  /\ WF_vars(\E x \in sources : Settled /\ SourceEnded(x))

SpecSpeak ==
  Init /\ [][NextSpeak]_vars /\ ResponseEnds /\ EventLoop /\ PlaybackLoop

\* An unanswered confirmation: a transcript is a command or "yes", the
\* microphone is granted, the socket does not fail, every stream asks for
\* confirmation or ends, the mic may be switched off, and the idle timers run.
NextPending ==
  \/ AcqSettle(TRUE)
  \/ Settled /\ OpenOverlay
  \/ Settled /\ CloseOverlay
  \/ Settled /\ (SockOpen(geminiWs) \/ nSock < MaxSock) /\ ToggleMicOn
  \/ Settled /\ ToggleMicOff
  \/ \E s \in 1..MaxSock : Settled /\ SocketOpen(s)
  \/ \E s \in 1..MaxSock : Calm /\ ServerSetupComplete(s)
  \/ \E i \in 1..MaxInbox : Settled /\ HandleMessage(i)
  \/ \E s \in 1..MaxSock, p \in {Cmd, Yes} : Calm /\ ServerText(s, p)
  \/ \E s \in 1..MaxSock : Calm /\ ServerTurnComplete(s)
  \/ Settled /\ WaitForAudioDrain
  \/ Settled /\ WarningFires
  \/ Settled /\ CloseTimerFires
  \/ \E d \in 1..MaxDispatch : Settled /\ FetchOk(d)
  \/ \E d \in 1..MaxDispatch :
       Settled /\ StreamEvent(d, "confirmation_required", 1)
  \/ \E d \in 1..MaxDispatch : Settled /\ StreamEnd(d)
  \/ Settled /\ CallFinally

\* A timer that is pending fires.
TimersFire ==
  /\ WF_vars(Settled /\ WarningFires)
  /\ WF_vars(Settled /\ CloseTimerFires)

\* A suspended onmessage handler resumes.
MessagesHandled == WF_vars(\E i \in 1..MaxInbox : Settled /\ HandleMessage(i))

SpecPending ==
  Init /\ [][NextPending]_vars
    /\ ResponseEnds /\ EventLoop /\ TimersFire /\ MessagesHandled

\* Mic-off during a dispatch: the tasks of NextGate; the mic is switched on
\* only while a socket is open or one more can be created, so that a started
\* acquisition can always settle within MaxSock.
NextMicOff ==
  \/ AcqSettle(TRUE)
  \/ Settled /\ OpenOverlay
  \/ Settled /\ CloseOverlay
  \/ Settled /\ (SockOpen(geminiWs) \/ nSock < MaxSock) /\ ToggleMicOn
  \/ Settled /\ ToggleMicOff
  \/ \E s \in 1..MaxSock : Settled /\ SocketOpen(s)
  \/ \E s \in 1..MaxSock : Calm /\ ServerSetupComplete(s)
  \/ \E i \in 1..MaxInbox : Settled /\ HandleMessage(i)
  \/ \E s \in 1..MaxSock, p \in {Cmd, Yes, No} : Calm /\ ServerText(s, p)
  \/ \E s \in 1..MaxSock : Calm /\ ServerTurnComplete(s)
  \/ Settled /\ WaitForAudioDrain
  \/ \E d \in 1..MaxDispatch : Settled /\ FetchOk(d)
  \/ \E d \in 1..MaxDispatch,
        e \in {"confirmation_required", "result", "summary", "done"} :
       Settled /\ StreamEvent(d, e, 1)
  \/ \E d \in 1..MaxDispatch : Settled /\ StreamEnd(d)
  \/ Settled /\ CallFinally

\* NextMicOff under the scheduling of the event loop and a backend response
\* that ends.
SpecMicOff == Init /\ [][NextMicOff]_vars /\ ResponseEnds /\ EventLoop

\* Confirmation under the idle supervisor: the overlay stays open, the
\* microphone is granted, the socket does not fail, a transcript is a command
\* or "yes", every stream asks for confirmation, and the idle timers run.
NextConfirm ==
  \/ AcqSettle(TRUE)
  \/ Settled /\ OpenOverlay
  \/ Settled /\ ToggleMicOn
  \/ \E s \in 1..MaxSock : Settled /\ SocketOpen(s)
  \/ \E s \in 1..MaxSock : Calm /\ ServerSetupComplete(s)
  \/ \E i \in 1..MaxInbox : Settled /\ HandleMessage(i)
  \/ \E s \in 1..MaxSock, p \in {Cmd, Yes} : Calm /\ ServerText(s, p)
  \/ \E s \in 1..MaxSock : Calm /\ ServerTurnComplete(s)
  \/ Settled /\ WaitForAudioDrain
  \/ \E loud \in BOOLEAN, lapsed \in BOOLEAN : Settled /\ AudioFrame(loud, lapsed)
  \/ Settled /\ WarningFires
  \/ Settled /\ CloseTimerFires
  \/ Settled /\ StayActive
  \/ \E d \in 1..MaxDispatch : Settled /\ FetchOk(d)
  \/ \E d \in 1..MaxDispatch :
       Settled /\ StreamEvent(d, "confirmation_required", 1)
  \/ Settled /\ CallFinally

SpecConfirm == Init /\ [][NextConfirm]_vars

\* The idle supervisor: no server content arrives after setupComplete.
NextIdle ==
  \/ Overlay
  \/ Channel
  \/ \E loud \in BOOLEAN, lapsed \in BOOLEAN : AudioFrame(loud, lapsed)
  \/ WarningFires
  \/ CloseTimerFires
  \/ StayActive

SpecIdle == Init /\ [][NextIdle]_vars

(***************************************************************************)
(* Teardown as functions.  Each operator takes the variables the teardown  *)
(* functions read and write as a record t and returns the record the call  *)
(* leaves; the ...Does operator is the set of external actions the call    *)
(* performs (disconnect, track stop, context close, clearTimeout, request, *)
(* socket close).                                                          *)
(***************************************************************************)
Teardown ==
  [isOpen |-> isOpen, micOn |-> micOn, micProcessor |-> micProcessor,
   micStream |-> micStream, audioContext |-> audioContext,
   isSpeaking |-> isSpeaking, warningTimer |-> warningTimer,
   closeTimer |-> closeTimer, playbackQueue |-> playbackQueue,
   isPlaying |-> isPlaying, agentSessionId |-> agentSessionId,
   geminiWs |-> geminiWs, wsReady |-> wsReady,
   playbackContext |-> playbackContext]

\* stopMicOn with a seeded fault: the stream is stopped but micStream is not
\* set to null.
stopMicKeepsStream(t) ==
  [t EXCEPT !.micProcessor = FALSE, !.audioContext = FALSE,
            !.isSpeaking = FALSE]

\* stopMic()
stopMicOn(t) ==
  [t EXCEPT !.micProcessor = FALSE, !.micStream = FALSE,
            !.audioContext = FALSE, !.isSpeaking = FALSE]

stopMicDoes(t) ==
  (IF t.micProcessor THEN {"disconnect"} ELSE {})
    \cup (IF t.micStream THEN {"trackStop"} ELSE {})
    \cup (IF t.audioContext THEN {"audioContextClose"} ELSE {})

\* clearIdleTimer()
clearIdleTimerOn(t) == [t EXCEPT !.warningTimer = FALSE, !.closeTimer = FALSE]

clearIdleTimerDoes(t) ==
  (IF t.warningTimer THEN {"clearWarning"} ELSE {})
    \cup (IF t.closeTimer THEN {"clearClose"} ELSE {})

\* clearPlaybackQueue()
clearPlaybackQueueOn(t) == [t EXCEPT !.playbackQueue = <<>>, !.isPlaying = FALSE]

clearPlaybackQueueDoes(t) == {}

\* closeOverlay()
closeOverlayOn(t) ==
  IF ~t.isOpen THEN t
  ELSE LET u == clearPlaybackQueueOn(clearIdleTimerOn(stopMicOn(
                  [t EXCEPT !.isOpen = FALSE, !.micOn = FALSE])))
       IN [u EXCEPT !.agentSessionId = 0,
                    !.geminiWs = 0,
                    !.wsReady = IF t.geminiWs # 0 THEN FALSE ELSE @,
                    !.playbackContext = "none"]

closeOverlayDoes(t) ==
  IF ~t.isOpen THEN {}
  ELSE stopMicDoes(t) \cup clearIdleTimerDoes(t) \cup clearPlaybackQueueDoes(t)
         \cup (IF t.agentSessionId # 0 THEN {"closeSession"} ELSE {})
         \cup (IF t.geminiWs # 0 THEN {"socketClose"} ELSE {})
         \cup (IF t.playbackContext # "none" THEN {"playbackContextClose"} ELSE {})

\* closeOverlay(): the teardown calls it makes, in the order of its
\* statements.
closeOverlayCalls(t) ==
  IF ~t.isOpen THEN <<>>
  ELSE <<"stopMic", "clearIdleTimer", "clearPlaybackQueue">>
         \o (IF t.agentSessionId # 0 THEN <<"closeSession">> ELSE <<>>)
         \o (IF t.geminiWs # 0 THEN <<"geminiWs.close">> ELSE <<>>)
         \o (IF t.playbackContext # "none" THEN <<"playbackContext.close">> ELSE <<>>)

(***************************************************************************)
(* The claims.                                                             *)
(***************************************************************************)

\* C1: at most one backend dispatch (a callVoiceCommandAPI call whose
\* request/response stream has not ended) is in flight at any instant, for
\* every interleaving of transcripts, confirmation replies, mic toggles and
\* overlay close / re-open.
AtMostOneDispatchInFlight == Cardinality(InFlight) <= 1

\* C2: in every reachable state at most one audio fragment is playing.
AtMostOneFragmentPlaying == Cardinality(Playing) <= 1

\* C3: between two overlay closes the fragments are started in the order in
\* which they arrived on the speech channel (fragment numbers are given on
\* arrival), none of them twice.
PlayedInArrivalOrder ==
  \A i, j \in 1..Len(startLog) : i < j => startLog[i] < startLog[j]

\* onmessage, turnComplete branch, hands a non-empty transcript to
\* routeTranscript in this step.
RouteStep == pc = Idle /\ pc'.k = "drain" /\ Trim(transcriptBuffer) # <<>>

\* The transcript routeTranscript receives in a RouteStep
Transcript == Trim(transcriptBuffer)

\* This step issued a backend request; it is the last entry of disp'.
Issued == nDisp' = nDisp + 1 /\ "request" \in out'

\* The finally block of request d runs in this step.
Returns(d) == pc = Finally(d) /\ pc' = Idle

\* C4 (as amended): while the PendingConfirmation stored by a
\* confirmation_required still exists, an affirmative transcript issues exactly
\* one request, carrying the stored original text (the text of the request
\* that was answered confirmation_required) with confirmed=true, and clears
\* PendingConfirmation; a confirmed request is issued by no other step.
ConfirmationRoundTrip ==
  [][/\ (RouteStep /\ pendingConfirmation.set /\ IsAffirmative(Transcript))
          => /\ Issued
             /\ disp'[nDisp'].text = pendingConfirmation.text
             /\ disp'[nDisp'].confirmed
             /\ ~pendingConfirmation'.set
     /\ (nDisp' > nDisp /\ disp'[nDisp'].confirmed)
          => (RouteStep /\ pendingConfirmation.set /\ IsAffirmative(Transcript))
     /\ (pendingConfirmation'.set /\ pendingConfirmation' # pendingConfirmation)
          => /\ disp[pendingConfirmation'.by].pc = "stream"
             /\ pendingConfirmation'.text = disp[pendingConfirmation'.by].text
    ]_vars

\* C4 witness: the reply to a confirmation_required for the command "a b c d"
\* has just re-dispatched it with confirmed=true.
ConfirmedRedispatch ==
  /\ pc.k = "drain" /\ "request" \in out
  /\ disp[nDisp].confirmed /\ disp[nDisp].text = Cmd /\ disp[nDisp].pc = "fetch"

\* C4 as stated: whenever a request with confirmed=false was answered
\* confirmation_required and the next transcript is affirmative, one request
\* with the same text and confirmed=true is issued.
ReplyAfterGateRedispatches ==
  [][(RouteStep /\ asked # 0 /\ ~disp[asked].confirmed /\ IsAffirmative(Transcript))
       => /\ Issued
          /\ disp'[nDisp'].text = disp[asked].text
          /\ disp'[nDisp'].confirmed
    ]_vars

\* C5: while a PendingConfirmation exists, the transcript handed to
\* routeTranscript is taken as a yes/cancel answer: it is never dropped as
\* short or busy, any request the step issues has confirmed=true and the
\* stored text, and PendingConfirmation no longer exists afterwards.
PendingReplyNeverCommand ==
  [][(RouteStep /\ pendingConfirmation.set)
       => /\ ~pendingConfirmation'.set
          /\ out' \cap {"short", "busy"} = {}
          /\ IF IsAffirmative(Transcript) THEN Issued ELSE disp' = disp
          /\ nDisp' > nDisp => /\ disp'[nDisp'].confirmed
                               /\ disp'[nDisp'].text = pendingConfirmation.text
    ]_vars

\* C5 witness: a reply was handled as a cancellation while another request
\* was in flight.
ReplyHandledWhileInFlight ==
  pc.k = "drain" /\ "cancelled" \in out /\ InFlight # {} /\ ~pendingConfirmation.set

\* A non-affirmative reply to a PendingConfirmation is routed in this step.
CancelStep == RouteStep /\ pendingConfirmation.set /\ ~IsAffirmative(Transcript)

\* C6 (as amended): a non-affirmative reply clears PendingConfirmation, sets
\* TurnState to listening (mic on) or idle (mic off), issues no backend
\* request, and sends the acknowledgement exactly when the speech channel is
\* open and ready (otherwise the acknowledgement is dropped).
CancelClearsPending ==
  [][CancelStep
       => /\ pendingConfirmation' = NoPending
          /\ assistantState' = StateFor(micOn)
          /\ disp' = disp /\ "request" \notin out'
          /\ ("speak" \in out') = ChannelReady
    ]_vars

\* C6 witness: a cancellation was acknowledged on the speech channel.
CancelAcknowledged ==
  pc.k = "drain" /\ out = {"cancelled", "speak"} /\ ~pendingConfirmation.set

\* C6 as stated: the acknowledgement is always sent.
CancelAlwaysAcknowledged ==
  [][CancelStep
       => /\ pendingConfirmation' = NoPending
          /\ assistantState' = StateFor(micOn)
          /\ disp' = disp /\ "request" \notin out'
          /\ "speak" \in out'
    ]_vars

\* C7: with no PendingConfirmation, a transcript of three words or fewer
\* issues no request and changes neither the in-flight flag, the session id
\* nor TurnState; a transcript of four or more words routed while no
\* dispatch is in flight issues exactly one request with confirmed=false.
ShortDroppedLongDispatched ==
  [][/\ (RouteStep /\ ~pendingConfirmation.set /\ IsShortUtterance(Transcript))
          => /\ disp' = disp /\ "request" \notin out'
             /\ UNCHANGED <<isProcessingAgent, agentSessionId, assistantState>>
     /\ (RouteStep /\ ~pendingConfirmation.set /\ ~IsShortUtterance(Transcript)
           /\ InFlight = {})
          => /\ Issued
             /\ ~disp'[nDisp'].confirmed
             /\ disp'[nDisp'].text = Transcript
    ]_vars

AwaitingConfirmationSurvivesReturn ==
  [][\A d \in 1..MaxDispatch :
       /\ (disp[d].pc = "stream" /\ asked' = d)
            => pendingConfirmation'.set /\ assistantState' = "awaiting-confirmation"
       /\ (Returns(d) /\ asked = d /\ pendingConfirmation.set
             /\ assistantState = "awaiting-confirmation")
            => assistantState' = "awaiting-confirmation"
    ]_vars

\* The close timer closes the open overlay in this step.
ForceClose == pc = Idle /\ closeTimer /\ isOpen /\ ~isOpen'

\* C10, scenario D: the warning timer sets TurnState timeout-warning and arms
\* the close timer; after the forced close no microphone stream is live, no
\* connection of the speech channel is open, the playback queue is empty and
\* nothing is playing.
IdleTimeoutTearsDown ==
  [][/\ (pc = Idle /\ warningTimer /\ ~warningTimer' /\ isOpen' /\ micOn')
          => (assistantState' = "timeout-warning" /\ closeTimer')
     /\ ForceClose
          => /\ ~micStream' /\ ~micProcessor' /\ ~leaked'
             /\ geminiWs' = 0 /\ \A s \in 1..MaxSock : sock'[s] \notin {"open", "setup", "ready"}
             /\ playbackQueue' = <<>> /\ ~isPlaying' /\ Playing' = {}
    ]_vars

\* C11, scenario E: the step that reads the first error event of a stream
\* shows the error and sends the apology exactly when the speech channel is
\* open and ready; when a dispatch whose stream delivered an error returns,
\* the in-flight flag is false and TurnState is listening if the mic is on
\* and idle otherwise.
ScenarioE ==
  [][\A d \in 1..MaxDispatch :
       /\ (disp[d].pc = "stream" /\ disp[d].shape # "e" /\ disp'[d].shape = "e")
            => /\ "error" \in out'
               /\ ("speak" \in out') = ChannelReady
               /\ "request" \notin out'
       /\ (Returns(d) /\ disp[d].shape = "e")
            => /\ ~isProcessingAgent'
               /\ assistantState' = StateFor(micOn)
               /\ assistantState' # "agent-processing"
    ]_vars

\* C11 witness: the apology for an error event was sent and the stream is
\* still open.
ErrorApologised ==
  \E d \in 1..MaxDispatch :
    disp[d].pc = "stream" /\ disp[d].shape = "e" /\ out = {"error", "speak"}

\* C12, liveness: whenever the in-flight flag is set, a later state has the
\* flag false and TurnState idle or listening, given that every backend
\* response eventually ends or fails.
FlagEventuallyCleared ==
  isProcessingAgent ~>
    (~isProcessingAgent /\ assistantState \in {"idle", "listening"})

\* The same property restricted to the behaviours in which setStatusText is
\* defined.
FlagClearedWhenStatusTextDefined ==
  statusTextDefined => FlagEventuallyCleared

\* C13, idempotence of teardown: in every state, and after every close of
\* the overlay, a second call of stopMic, clearIdleTimer, clearPlaybackQueue
\* or closeOverlay right after the first leaves every variable as the first
\* call left it and performs no external action; a step that closes the
\* overlay leaves exactly what closeOverlayOn computes.
Twice(t1) ==
  /\ stopMicOn(stopMicOn(t1)) = stopMicOn(t1)
  /\ stopMicDoes(stopMicOn(t1)) = {}
  /\ clearIdleTimerOn(clearIdleTimerOn(t1)) = clearIdleTimerOn(t1)
  /\ clearIdleTimerDoes(clearIdleTimerOn(t1)) = {}
  /\ clearPlaybackQueueOn(clearPlaybackQueueOn(t1)) = clearPlaybackQueueOn(t1)
  /\ clearPlaybackQueueDoes(clearPlaybackQueueOn(t1)) = {}
  /\ closeOverlayOn(closeOverlayOn(t1)) = closeOverlayOn(t1)
  /\ closeOverlayDoes(closeOverlayOn(t1)) = {}

SessionIdImmutable ==
  [][/\ (agentSessionId # 0 /\ agentSessionId' # 0)
          => agentSessionId' = agentSessionId
     /\ (agentSessionId # 0 /\ agentSessionId' = 0 /\ isOpen)
          => ~isOpen'
    ]_vars

\* C15, lazy session and reuse: the step that opens the overlay issues no
\* backend request and leaves the session id null; the first request issued
\* in an overlay-open period carries session_id null; a request issued while
\* a session id is recorded carries that id.
LazySessionAndReuse ==
  [][/\ (~isOpen /\ isOpen')
          => "request" \notin out' /\ agentSessionId' = 0
     /\ (Issued /\ \A d \in 1..nDisp : disp[d].per # nOpen)
          => disp'[nDisp + 1].sid = 0
     /\ (Issued /\ agentSessionId # 0)
          => disp'[nDisp + 1].sid = agentSessionId
    ]_vars

\* C16: the onopen handler of a connection sends the setup message on that
\* connection and on no other, so that every connection gets it first and
\* once; an audio chunk or a text to speak is sent only on a connection whose
\* own setupComplete has been received.
SetupFirstAndOnce ==
  [][/\ \A s \in 1..MaxSock :
          (sock[s] = "connecting" /\ sock'[s] \in {"open", "setup"})
            => (sock'[s] = "setup" /\ "setup" \in out')
     /\ ("chunk" \in out' \/ "speak" \in out') => OwnSetupComplete(geminiWs)'
    ]_vars

\* C17: while the overlay is closed no idle timer is pending, the playback
\* queue is empty and nothing is playing, no speech-channel connection is
\* open or being opened, and no microphone stream is held.
ClosedMeansQuiet ==
  ~isOpen =>
    /\ ~warningTimer /\ ~closeTimer
    /\ playbackQueue = <<>> /\ ~isPlaying
    /\ \A x \in sources : ~x.live
    /\ \A s \in 1..MaxSock : sock[s] \notin {"connecting", "open", "setup", "ready"}
    /\ ~micStream

\* C18: every step that changes TurnState from speaking to idle or listening
\* starts in a state where the playback queue is empty and no fragment is
\* playing.
SpeakingLeftOnlyWhenDrained ==
  [][(assistantState = "speaking" /\ assistantState' \in {"idle", "listening"})
       => (Drained /\ Playing = {})
    ]_vars

\* C19, BackendError: when the request of dispatch d fails or is answered
\* with a non-success status, no event is processed, the error is shown, the
\* apology is sent to the speech channel (when it is ready), and the session
\* id, PendingConfirmation and the other requests are unchanged; when that
\* dispatch returns the in-flight flag is false and TurnState is listening
\* (mic on) or idle (mic off).
BackendErrorApologises ==
  [][\A d \in 1..MaxDispatch :
       /\ (disp[d].pc = "fetch" /\ disp'[d].pc = "exit")
            => /\ "error" \in out'
               /\ ("speak" \in out') = ChannelReady
               /\ disp'[d].n = 0
               /\ agentSessionId' = agentSessionId
               /\ pendingConfirmation' = pendingConfirmation
               /\ \A o \in 1..MaxDispatch : o # d => disp'[o] = disp[o]
       /\ (Returns(d) /\ disp[d].n = 0)
            => ~isProcessingAgent' /\ assistantState' = StateFor(micOn)
    ]_vars

\* C20: the step that closes the overlay issues the close notification
\* exactly when a session id is recorded, and clears the id; no other step
\* issues one (none without an id, no retry); the settlement of the
\* notification, failure included, changes no variable of the program.
CloseNotifiesOnce ==
  [][/\ (isOpen /\ ~isOpen')
          => /\ ("closeSession" \in out') = (agentSessionId # 0)
             /\ agentSessionId' = 0
     /\ "closeSession" \in out' => (isOpen /\ ~isOpen' /\ agentSessionId # 0)
     /\ "closeSettled" \in out'
          => ("closeSession" \in out /\ UNCHANGED progVars)
    ]_vars

\* C20 witness: the notification of a close that had a session id has settled.
CloseNotificationSettled ==
  ~isOpen /\ agentSessionId = 0 /\ out = {"closeSettled"}

\* C21: the step that handles confirmation_required ends the reading of
\* that response; a response that has ended is never read again; and from
\* the gate to the return of its dispatch nothing is spoken and no
\* history-sync signal is given.
GateEndsResponse ==
  [][\A d \in 1..MaxDispatch :
       /\ (disp[d].pc = "stream" /\ asked' = d)
            => (disp'[d].pc = "exit" /\ pc' = Finally(d))
       /\ disp[d].pc \in {"exit", "done"} => disp'[d].pc \in {"exit", "done"}
       /\ (disp[d].pc = "exit" /\ asked = d)
            => /\ Returns(d)
               /\ "speak" \notin out' /\ "sync" \notin out'
               /\ agentSessionId' = agentSessionId
               /\ pendingConfirmation' = pendingConfirmation
    ]_vars

\* C21 witness: a response was left at its confirmation_required event, after
\* one earlier event, and its dispatch is returning.
GateJustHandled ==
  \E d \in 1..MaxDispatch :
    /\ pc = Finally(d) /\ asked = d /\ disp[d].pc = "exit" /\ disp[d].n = 2
    /\ pendingConfirmation.set /\ assistantState = "awaiting-confirmation"

\* An event of the response of request d is read in this step.
EventRead(d) == disp[d].pc = "stream" /\ disp'[d].n = disp[d].n + 1

\* The done event that completes result, summary, done is read in this step.
DoneRead(d) == EventRead(d) /\ disp[d].shape = "s" /\ disp'[d].shape = "d"

TranscriptMessageHandled ==
  /\ pc = Idle /\ Len(inbox') = Len(inbox) - 1
  /\ \E i \in 1..Len(inbox) :
       inbox' = Remove(inbox, i) /\ inbox[i].k \in {"text", "turn"}

\* The turnComplete branch of onmessage runs in this step.
TurnCompleteHandled == pc = Idle /\ pc'.k = "drain"

\* C23: text parts and turnComplete messages take effect in the order they
\* arrived, so that the buffer snapshotted on turnComplete is the
\* concatenation, in arrival order, of the text parts received since the
\* previous turnComplete; the buffer is empty right after every turnComplete;
\* and an empty snapshot routes nothing.
TranscriptIsWhatArrived ==
  [][/\ TranscriptMessageHandled
          => \E i \in 1..Len(inbox) :
               /\ inbox' = Remove(inbox, i) /\ inbox[i].k \in {"text", "turn"}
               /\ \A j \in 1..(i - 1) : inbox[j].k \notin {"text", "turn"}
     /\ TurnCompleteHandled => transcriptBuffer' = <<>>
     /\ (TurnCompleteHandled /\ Trim(transcriptBuffer) = <<>>)
          => /\ out' = {} /\ disp' = disp
             /\ pendingConfirmation' = pendingConfirmation
             /\ isProcessingAgent' = isProcessingAgent
    ]_vars

\* The idle timers as resetIdleTimer leaves them while the mic is on.
TimersReset == warningTimer' /\ ~closeTimer'

\* A confirmation prompt arrives, or the reply to one is handled, in this step.
ConfirmationInteraction ==
  \/ \E d \in 1..MaxDispatch : disp[d].pc = "stream" /\ asked' = d
  \/ RouteStep /\ pendingConfirmation.set

\* C24: while the mic is on, a detected speech start, a confirmation
\* interaction and a stay-active action each leave the close timer cancelled
\* and the warning timer scheduled.
IdleTimersResetOnActivity ==
  [][/\ (micOn /\ ~isSpeaking /\ isSpeaking') => TimersReset
     /\ (micOn /\ StayActive) => TimersReset
     /\ (micOn /\ ConfirmationInteraction) => TimersReset
    ]_vars

\* The mic button is pressed while the mic is on (the overlay stays open).
MicOffStep == isOpen /\ isOpen' /\ micOn /\ ~micOn'

TeardownRank(c) ==
  CASE c = "geminiWs.close" -> 1
    [] c = "clearPlaybackQueue" -> 2
    [] c = "stopMic" -> 3
    [] c = "clearIdleTimer" -> 4
    [] OTHER -> 0

\* C26: a close of the overlay closes the speech channel, then clears the
\* playback queue, then releases the microphone capture, then cancels the idle
\* timers: no call of a later place comes before a call of an earlier place.
TeardownInSpecOrder ==
  [][(isOpen /\ ~isOpen') =>
       LET calls == closeOverlayCalls(Teardown)
       IN \A i, j \in 1..Len(calls) :
            (i < j /\ TeardownRank(calls[i]) > 0 /\ TeardownRank(calls[j]) > 0)
              => TeardownRank(calls[i]) < TeardownRank(calls[j])
    ]_vars

\* This step reads the first event of the response of request d whose data
\* does not parse.
MalformedRead(d) == EventRead(d) /\ disp[d].shape # "m" /\ disp'[d].shape = "m"

\* C27, ProtocolError: the step that reads an event with malformed data ends
\* the dispatch and sends the apology to the speech channel (when it is
\* ready); no later event of that response is read; when that dispatch
\* returns the in-flight flag is false and TurnState is listening (mic on) or
\* idle (mic off).
ProtocolErrorAborts ==
  [][\A d \in 1..MaxDispatch :
       /\ MalformedRead(d)
            => /\ disp'[d].pc = "exit"
               /\ ("speak" \in out') = ChannelReady
       /\ (disp[d].pc = "stream" /\ disp[d].shape = "m") => ~EventRead(d)
       /\ (Returns(d) /\ disp[d].shape = "m")
            => ~isProcessingAgent' /\ assistantState' = StateFor(micOn)
    ]_vars

\* Connection s fails or closes in this step.
ConnectionLost(s) == sock'[s] # sock[s] /\ sock'[s] \in {"closing", "closed"}

\* C28, ChannelError: a connection that fails or closes leaves the channel
\* not ready and creates no connection; a connection is created only in the
\* continuation of a mic-on, when the current one is not open; an audio chunk
\* or a speak request goes out only on a ready channel.
ChannelErrorNoReconnect ==
  [][/\ \A s \in 1..MaxSock : ConnectionLost(s) => (~wsReady' /\ nSock' = nSock)
     /\ (nSock' # nSock) => (acq' = acq - 1 /\ ~SockOpen(geminiWs))
     /\ ("chunk" \in out' \/ "speak" \in out') => ChannelReady
    ]_vars

\* The current connection is closed, the mic is on, and the summary of a
\* response was read and not spoken.
SummaryDroppedOnLostChannel ==
  /\ isOpen /\ micOn /\ geminiWs # 0 /\ sock[geminiWs] = "closed" /\ ~wsReady
  /\ \E d \in 1..MaxDispatch :
       disp[d].pc = "stream" /\ disp[d].shape = "s" /\ disp[d].speaks = 0

\* getUserMedia rejects in this step: the catch block of startMic and the
\* rest of toggleMic run.
PermissionDenied == acq' = acq - 1 /\ ~micStream'

\* C29, PermissionDenied: when the acquisition of the microphone fails, the
\* mic is off, no stream or processor is held, no idle timer is armed, no
\* acquisition is pending, and TurnState is the one of a mic that is off.
DeniedLeavesCaptureOff ==
  [][PermissionDenied =>
       /\ ~micOn' /\ ~micStream' /\ ~micProcessor'
       /\ ~warningTimer' /\ ~closeTimer'
       /\ acq' = 0
       /\ isOpen' => assistantState' = StateFor(micOn')
    ]_vars

HasAffirmativeWord(transcript) ==
  LET response == Trim(ToLowerCase(transcript))
  IN \E w \in yesWords, i \in 1..(Len(response) + 1) :
       LET j == i + Len(w) - 1
       IN /\ j <= Len(response)
          /\ SubSeq(response, i, j) = w
          /\ (i = 1 \/ IsSpace(response[i - 1]))
          /\ (j = Len(response) \/ IsSpace(response[j + 1]))

\* C31: the reply to a pending confirmation issues the confirmed request
\* exactly when a word of the normalized reply is a member of the affirmative
\* set; a reply that has a member only inside a longer word issues none.
AffirmativeIsWholeWord ==
  [][(RouteStep /\ pendingConfirmation.set)
       => (("request" \in out') <=> HasAffirmativeWord(Trim(transcriptBuffer)))
    ]_vars

\* The turnComplete that follows the audio fragment of the turn has arrived.
TurnCompleteArrived == isOpen /\ nextFrag = 2 /\ InboxTurns > 0

PendingEventuallyCleared ==
  (isOpen /\ pendingConfirmation.set) ~> (~pendingConfirmation.set \/ ~isOpen)

\* C34: an idle timer is pending only while the overlay is open and the mic
\* is on.
TimersOnlyWhileCapturing ==
  (warningTimer \/ closeTimer) => (isOpen /\ micOn)

\* The warning timer is pending while the mic is on, capturing, and speech
\* was detected.
TimerArmedWhileSpeaking ==
  /\ isOpen /\ micOn /\ warningTimer /\ ~closeTimer
  /\ assistantState = "listening" /\ micProcessor /\ isSpeaking

\* An event of connection s is handled in this step: its setupComplete
\* message, its error or its close (closeOverlay and connectGeminiWS, which
\* change geminiWs, are no events of a connection).
EventOf(s) ==
  /\ geminiWs' = geminiWs
  /\ \/ sock'[s] # sock[s] /\ sock'[s] \in {"closing", "closed"}
     \/ \E i \in 1..Len(inbox) :
          /\ inbox[i].k = "setupComplete" /\ inbox[i].frag = s
          /\ inbox' = Remove(inbox, i)

\* C35: the channel is ready only if the current connection is open and its
\* own setupComplete was handled, and an event of a connection that is not
\* the current one leaves the ready flag as it is.
ReadyIsOfCurrentConnection ==
  /\ [](wsReady => (SockOpen(geminiWs) /\ OwnSetupComplete(geminiWs)))
  /\ [][\A s \in 1..MaxSock : (s # geminiWs /\ EventOf(s)) => wsReady' = wsReady]_vars

\* Request d was issued in an overlay-open period before the present one.
FromEarlierPeriod(d) == isOpen /\ disp[d].pc # "none" /\ disp[d].per # nOpen

\* C36: an event of a response whose request was issued in an earlier
\* overlay-open period changes neither the session id, the pending
\* confirmation, the in-flight flag nor TurnState of the present period.
NoStateAcrossSessions ==
  [][\A d \in 1..MaxDispatch :
       (FromEarlierPeriod(d) /\ EventRead(d))
         => UNCHANGED <<agentSessionId, pendingConfirmation, isProcessingAgent,
                        assistantState>>
    ]_vars

\* C37: while the close timer is pending TurnState is timeout-warning.
CloseTimerMeansWarning ==
  closeTimer => assistantState = "timeout-warning"

\* C38: at most one microphone stream is live: no acquired stream is ever
\* replaced in micStream without having been stopped, and after a mic-off or
\* an overlay close no stream is live.
AtMostOneCapturePipeline ==
  /\ [](~leaked)
  /\ [][(micOn /\ ~micOn' /\ acq' = acq) => (~micStream' /\ ~leaked')]_vars

\* C39: a request with confirmed=true is issued only by the step that
\* handles an affirmative reply to the pending confirmation, carries the
\* original text of that confirmation and consumes it; a pending confirmation
\* is stored only by a confirmation_required event, with the text of the
\* request it answers, and none survives the opening of the overlay: the
\* event and the reply lie in the overlay-open period of the request.
ConfirmedOnlyThroughGate ==
  [][/\ (nDisp' > nDisp /\ disp'[nDisp'].confirmed)
          => /\ RouteStep /\ pendingConfirmation.set /\ IsAffirmative(Transcript)
             /\ disp'[nDisp'].text = pendingConfirmation.text
             /\ disp'[nDisp'].per = nOpen
             /\ ~pendingConfirmation'.set
     /\ (pendingConfirmation'.set /\ pendingConfirmation' # pendingConfirmation)
          => \E d \in 1..MaxDispatch :
               /\ EventRead(d) /\ asked' = d /\ nOpen' = nOpen
               /\ pendingConfirmation'.text = disp[d].text
     /\ (nOpen' # nOpen) => ~pendingConfirmation'.set
    ]_vars

\* A confirmed request was just issued in the second overlay-open period, in
\* reply to the confirmation_required of a request of the first period.
ConfirmedAfterReopen ==
  /\ pc.k = "drain" /\ "request" \in out /\ nOpen = 2 /\ nDisp = 2
  /\ disp[2].confirmed /\ disp[2].per = 2 /\ disp[2].text = disp[1].text
  /\ disp[1].per = 1

=============================================================================
